---- MODULE Spec2Model ----
(***************************************************************************)
(* A model of the a2a-project weather samples.  Four independent programs  *)
(* are modelled, each with its own specification over its own variables:   *)
(*   SpecExec    WeatherAgentExecutor.execute driving WeatherAgent.stream  *)
(*   SpecServer  the Flask handler handle_task of the simple server        *)
(*   SpecClient  handle_streaming / handle_non_streaming of the SDK client *)
(*   SpecWC      WeatherClient.discover_agent / ask_weather                *)
(***************************************************************************)
EXTENDS Integers, Sequences, FiniteSets, TLC

VARIABLES
    \* ---- WeatherAgentExecutor.execute / WeatherAgent.stream -------------
    ex_pc,        \* position of the running execute call
    context,      \* the RequestContext handed to execute
    task,         \* execute's local variable task
    event_queue,  \* the events enqueued by the current execute call, in order
    thread_id,    \* config["configurable"]["thread_id"] of the current stream call
    n_items,      \* items graph.stream has produced so far in this call
    memory,       \* MemorySaver: thread id -> number of turns checkpointed
    tasks,        \* tasks the hosting framework knows from earlier runs
    calls,        \* every stream call made so far: [task, thread]
    nextUuid,     \* source of uuid4 values
    runs,         \* number of execute calls started
    \* ---- handle_task of the simple server -----------------------------
    sv_pc,        \* position of the running handle_task call
    task_data,    \* request.get_json()
    task_id,      \* handle_task's local task_id
    user_message, \* handle_task's local user_message
    outbound,     \* the outbound calls of this request and their outcomes, in order
    response_text,\* handle_task's local response_text
    response,     \* what handle_task answered
    requests,     \* number of requests received
    \* ---- handle_streaming / handle_non_streaming of the SDK client ----
    cl_pc,             \* position of the running handler
    mode,              \* "streaming" or "non_streaming" (supports_streaming)
    shape,             \* the response shape the client object of this query gives
    sent,              \* the messages sent to the agent in this query, in order
    latest_task_id,    \* handle_streaming's local
    latest_context_id, \* handle_streaming's local
    input_required,    \* handle_streaming's local
    result,            \* handle_non_streaming's local result
    stream_final,      \* the agent has sent the final update of the open stream
    n_updates,         \* updates received on the open stream
    served,            \* the agent-side task of each response of this query
    asked,             \* responses of this query that carried input-required
    prompted,          \* prompts made to the terminal user in this query
    srvNext,           \* the agent side's source of fresh ids
    queries,           \* number of queries started
    \* ---- WeatherClient ------------------------------------------------
    agent_info,   \* self.agent_info
    http_log,     \* the HTTP requests sent, in order
    last_call,    \* the last method call and how it ended
    discovered,   \* a discover_agent call has returned successfully
    wc_calls,     \* number of method calls made
    \* ---- extract_content_from_response --------------------------------
    xt_pc,        \* "call" before the call, "returned" after it
    update,       \* the argument of the call
    content       \* what the call returned

execVars == <<ex_pc, context, task, event_queue, thread_id, n_items, memory,
              tasks, calls, nextUuid, runs>>

serverVars == <<sv_pc, task_data, task_id, user_message, outbound,
                response_text, response, requests>>

\* ------------------------------------------------------------------ bounds
MaxRuns == 3
MaxItems == 3
MaxParts == 1
MaxRequests == 2
MaxQueries == 2
MaxUpdates == 2
MaxAsks == 2
MaxCalls == 4
MaxArtifacts == 1
MaxArtParts == 2

clientVars == <<cl_pc, mode, shape, sent, latest_task_id, latest_context_id,
                input_required, result, stream_final, n_updates, served, asked,
                prompted, srvNext, queries>>

wcVars == <<agent_info, http_log, last_call, discovered, wc_calls>>

extractVars == <<xt_pc, update, content>>

\* ------------------------------------------------------------- executor
\* Python's None for an object (a task, a message) and for an id
None == [none |-> TRUE]
NoId == 0

\* context ids a client may put on a first message
ClientContextIds == {101, 102}

\* the kinds of the last message of a graph.stream item
ItemKinds == {"human", "ai_tool_calls", "tool", "ai"}

\* the values of state.values.get("structured_response")
StructuredValues == {"completed", "input_required", "error", "absent"}

Message(tid, cid) == [task_id |-> tid, context_id |-> cid]

Event(kind, t, state, final, name, text) ==
    [kind |-> kind, taskId |-> t.id, contextId |-> t.context_id,
     state |-> state, final |-> final, name |-> name, text |-> text]

\* a2a.utils.new_task(message): ids taken from the message, else fresh uuids
new_task(msg, u) ==
    [id |-> IF msg.task_id = NoId THEN u ELSE msg.task_id,
     context_id |-> IF msg.context_id = NoId THEN u + 1 ELSE msg.context_id]

\* a slip: the task id handed over as session id
StreamSessionId_TaskId(t) == t.id

\* the thread id execute passes to WeatherAgent.stream
StreamSessionId(t) == t.context_id

\* the events execute enqueues before the streaming loop
TaskEvents(ctx, t) ==
    IF ctx.current_task = None
    THEN <<Event("task", t, "submitted", FALSE, "none", "none")>>
    ELSE <<>>

\* WeatherAgent._final_response
_final_response(structured) ==
    IF structured = "completed"
    THEN [is_task_complete |-> TRUE, require_user_input |-> FALSE, content |-> "report"]
    ELSE IF structured \in {"input_required", "error"}
    THEN [is_task_complete |-> FALSE, require_user_input |-> TRUE, content |-> "question"]
    ELSE [is_task_complete |-> FALSE, require_user_input |-> TRUE, content |-> "fallback"]

\* what stream yields for one graph.stream item: a progress dict or nothing
StreamYield(kind) ==
    IF kind = "ai_tool_calls"
    THEN <<[is_task_complete |-> FALSE, require_user_input |-> FALSE, content |-> "searching"]>>
    ELSE IF kind = "tool"
    THEN <<[is_task_complete |-> FALSE, require_user_input |-> FALSE, content |-> "processing"]>>
    ELSE <<>>

\* a slip: the artifact branch taken for every final dict
FirstEventFor_AnyFinal(ev, t) ==
    IF ev.is_task_complete \/ ev.require_user_input
    THEN Event("artifact", t, "none", FALSE, "weather_report", ev.content)
    ELSE Event("status", t, "working", FALSE, "none", ev.content)

\* the first event execute enqueues for one dict yielded by stream
FirstEventFor(ev, t) ==
    IF ev.is_task_complete
    THEN Event("artifact", t, "none", FALSE, "weather_report", ev.content)
    ELSE IF ev.require_user_input
    THEN Event("status", t, "input_required", TRUE, "none", ev.content)
    ELSE Event("status", t, "working", FALSE, "none", ev.content)

\* a slip: the completed status not marked final
CompletedEvent_NotFinal(t) == Event("status", t, "completed", FALSE, "none", "none")

\* the second event execute enqueues for a dict with is_task_complete
CompletedEvent(t) == Event("status", t, "completed", TRUE, "none", "none")

\* a slip: the final response yielded from inside the loop over graph.stream
PcAfterFinal_InLoop(ev) == IF ev.is_task_complete THEN "completing" ELSE "stream"

\* where execute stands after the first event for stream's last dict: stream
\* yields nothing after _final_response, so the loop of execute ends
PcAfterFinal(ev) == IF ev.is_task_complete THEN "completing" ELSE "returned"

\* the requests the hosting framework can hand to execute
Requests ==
    {[message |-> None, current_task |-> t] : t \in tasks \cup {None}}
    \cup {[message |-> Message(NoId, c), current_task |-> None] :
            c \in ClientContextIds \cup {NoId}}
    \cup {[message |-> Message(t.id, t.context_id), current_task |-> t] : t \in tasks}

InitExec ==
    /\ ex_pc = "idle"
    /\ context = [message |-> None, current_task |-> None]
    /\ task = None
    /\ event_queue = <<>>
    /\ thread_id = NoId
    /\ n_items = 0
    /\ memory = <<>>
    /\ tasks = {}
    /\ calls = {}
    /\ nextUuid = 1
    /\ runs = 0

Bump(mem, th) ==
    IF th \in DOMAIN mem THEN [mem EXCEPT ![th] = @ + 1] ELSE mem @@ (th :> 1)

\* a slip: the message is checked only after the agent has been invoked for
\* the current task
ExecuteNoMessage_Late(ctx) ==
    /\ ex_pc \in {"idle", "returned", "raised"}
    /\ runs < MaxRuns
    /\ ctx.message = None
    /\ ex_pc' = "raised"
    /\ context' = ctx
    /\ task' = ctx.current_task
    /\ event_queue' = <<>>
    /\ thread_id' = NoId
    /\ n_items' = 0
    /\ runs' = runs + 1
    /\ memory' = IF ctx.current_task = None THEN memory
                 ELSE Bump(memory, ctx.current_task.context_id)
    /\ UNCHANGED <<tasks, calls, nextUuid>>
    /\ UNCHANGED <<serverVars, clientVars, wcVars, extractVars>>

\* execute, lines 19-23: a request without message raises 'No message
\* provided'
ExecuteNoMessage(ctx) ==
    /\ ex_pc \in {"idle", "returned", "raised"}
    /\ runs < MaxRuns
    /\ ctx.message = None
    /\ ex_pc' = "raised"
    /\ context' = ctx
    /\ task' = ctx.current_task
    /\ event_queue' = <<>>
    /\ thread_id' = NoId
    /\ n_items' = 0
    /\ runs' = runs + 1
    /\ UNCHANGED <<memory, tasks, calls, nextUuid>>
    /\ UNCHANGED <<serverVars, clientVars, wcVars, extractVars>>

\* execute, lines 19-31: the task is taken or created, and stream is called
ExecuteStart(ctx) ==
    /\ ex_pc \in {"idle", "returned", "raised"}
    /\ runs < MaxRuns
    /\ ctx.message # None
    /\ LET t == IF ctx.current_task = None
                THEN new_task(ctx.message, nextUuid)
                ELSE ctx.current_task
           th == StreamSessionId(t)
       IN /\ task' = t
          /\ event_queue' = TaskEvents(ctx, t)
          /\ tasks' = tasks \cup {t}
          /\ thread_id' = th
          /\ memory' = Bump(memory, th)
          /\ calls' = calls \cup {[task |-> t.id, thread |-> th]}
          /\ nextUuid' = IF ctx.current_task = None THEN nextUuid + 2 ELSE nextUuid
    /\ context' = ctx
    /\ ex_pc' = "stream"
    /\ n_items' = 0
    /\ runs' = runs + 1
    /\ UNCHANGED <<serverVars, clientVars, wcVars, extractVars>>

\* one item of graph.stream: stream yields a progress dict or nothing, and
\* execute enqueues the event for it
StreamItem(kind) ==
    /\ ex_pc = "stream"
    /\ n_items < MaxItems
    /\ n_items' = n_items + 1
    /\ event_queue' = event_queue \o
          [i \in 1..Len(StreamYield(kind)) |-> FirstEventFor(StreamYield(kind)[i], task)]
    /\ UNCHANGED <<ex_pc, context, task, thread_id, memory, tasks, calls, nextUuid, runs>>
    /\ UNCHANGED <<serverVars, clientVars, wcVars, extractVars>>

\* graph.stream is exhausted: stream yields _final_response, execute enqueues
\* the first event for it
StreamFinal(structured) ==
    /\ ex_pc = "stream"
    /\ LET ev == _final_response(structured)
       IN /\ event_queue' = Append(event_queue, FirstEventFor(ev, task))
          /\ ex_pc' = PcAfterFinal(ev)
    /\ UNCHANGED <<context, task, thread_id, n_items, memory, tasks, calls, nextUuid, runs>>
    /\ UNCHANGED <<serverVars, clientVars, wcVars, extractVars>>

\* execute, lines 49-56: the completed status follows the artifact
EnqueueCompleted ==
    /\ ex_pc = "completing"
    /\ event_queue' = Append(event_queue, CompletedEvent(task))
    /\ ex_pc' = "returned"
    /\ UNCHANGED <<context, task, thread_id, n_items, memory, tasks, calls, nextUuid, runs>>
    /\ UNCHANGED <<serverVars, clientVars, wcVars, extractVars>>

\* graph.stream raises (the LLM or the tool fails): the exception leaves
\* stream and execute
StreamRaises ==
    /\ ex_pc = "stream"
    /\ ex_pc' = "raised"
    /\ UNCHANGED <<context, task, event_queue, thread_id, n_items, memory, tasks, calls,
                   nextUuid, runs>>
    /\ UNCHANGED <<serverVars, clientVars, wcVars, extractVars>>

NextExec ==
    \/ \E ctx \in Requests : ExecuteNoMessage(ctx)
    \/ \E ctx \in Requests : ExecuteStart(ctx)
    \/ \E kind \in ItemKinds : StreamItem(kind)
    \/ \E s \in StructuredValues : StreamFinal(s)
    \/ EnqueueCompleted
    \/ StreamRaises

\* --------------------------------------------------------------- server
\* max_results of the search call
MaxResults == 3

Texts == {"London", "Paris"}
TaskIds == {1, 2}

\* JSON values a part, a parts member, a message member and a body can be
PartValues ==
    {[kind |-> "object", has_text |-> TRUE, text |-> t] : t \in Texts}
    \cup {[kind |-> "object", has_text |-> FALSE, text |-> ""],
          [kind |-> "string", has_text |-> FALSE, text |-> ""],
          [kind |-> "null", has_text |-> FALSE, text |-> ""]}

PartLists == UNION {[1..n -> PartValues] : n \in 0..MaxParts}

PartsValues ==
    {[kind |-> "list", items |-> l] : l \in PartLists}
    \cup {[kind |-> k, items |-> <<>>] :
            k \in {"absent", "null", "object", "string", "empty_string"}}

MessageValues ==
    {[kind |-> "object", parts |-> p] : p \in PartsValues}
    \cup {[kind |-> k, parts |-> [kind |-> "absent", items |-> <<>>]] :
            k \in {"absent", "null", "list", "string"}}

Bodies ==
    {[kind |-> "object", id |-> i, message |-> m] :
        i \in TaskIds \cup {NoId}, m \in MessageValues}
    \cup {[kind |-> k, id |-> NoId,
           message |-> [kind |-> "absent", parts |-> [kind |-> "absent", items |-> <<>>]]] :
            k \in {"list", "string", "number", "null"}}

Ok(v) == [ok |-> TRUE, val |-> v, exc |-> "none"]
Raise(e) == [ok |-> FALSE, val |-> "", exc |-> e]

\* part["text"]
PartText(part) ==
    IF part.kind = "object"
    THEN IF part.has_text THEN Ok(part.text) ELSE Raise("KeyError")
    ELSE Raise("TypeError")

\* parts[0]["text"]
FirstPartText(parts) ==
    CASE parts.kind = "list" ->
            IF Len(parts.items) = 0 THEN Raise("IndexError")
            ELSE PartText(parts.items[1])
      [] parts.kind = "object" -> Raise("KeyError")
      [] parts.kind = "empty_string" -> Raise("IndexError")
      [] parts.kind = "string" -> Raise("TypeError")
      [] OTHER -> Raise("TypeError")

\* message["parts"][0]["text"]
MessageText(m) ==
    CASE m.kind = "object" ->
            IF m.parts.kind = "absent" THEN Raise("KeyError")
            ELSE FirstPartText(m.parts)
      [] OTHER -> Raise("TypeError")

\* task_data.get("id") is evaluated first: only a dict has .get
GetId(data) ==
    IF data.kind = "object" THEN Ok(data.id) ELSE Raise("AttributeError")

\* lines 39-43: task_data.get("id"), then task_data["message"]["parts"][0]["text"]
ExtractText(data) ==
    IF ~GetId(data).ok THEN GetId(data)
    ELSE IF data.message.kind = "absent" THEN Raise("KeyError")
    ELSE MessageText(data.message)

\* the exceptions the first try block of handle_task catches
CaughtOnParse == {"KeyError", "IndexError", "TypeError"}

NoResponse == [status |-> 0, error |-> "", id |-> NoId, state |-> "", messages |-> <<>>]

ErrorResponse(status, error) ==
    [status |-> status, error |-> error, id |-> NoId, state |-> "", messages |-> <<>>]

\* a slip: the original message not echoed
Envelope_NoEcho(data, tid, text) ==
    [status |-> 200, error |-> "", id |-> tid, state |-> "completed",
     messages |-> <<[role |-> "agent", parts |-> <<[text |-> text]>>]>>]

\* lines 89-99: the success envelope
Envelope(data, tid, text) ==
    [status |-> 200, error |-> "", id |-> tid, state |-> "completed",
     messages |-> <<data.message,
                    [role |-> "agent", parts |-> <<[text |-> text]>>]>>]

\* the outcomes of the search call
SearchResultValues ==
    {[ok |-> TRUE, title |-> "bbc", content |-> "sunny"],
     [ok |-> TRUE, title |-> "met", content |-> "rain"],
     [ok |-> FALSE, title |-> "", content |-> ""]}

SearchReturns ==
    {[has_results |-> FALSE, results |-> <<>>]}
    \cup {[has_results |-> TRUE, results |-> r] :
            r \in UNION {[1..n -> SearchResultValues] : n \in 0..MaxResults}}

Exceptions == {"timeout", "quota"}
LlmReplies == {"Sunny, 20C", "Rain, 12C"}

\* line 83
Apology == "Sorry, I couldn't find current weather information for that location."

\* line 86: f"I encountered an error getting weather data: {str(e)}"
ErrorText(e) ==
    CASE e = "timeout" -> "I encountered an error getting weather data: timeout"
      [] e = "quota" -> "I encountered an error getting weather data: quota"
      [] OTHER -> "I encountered an error getting weather data: 'title'"

\* line 50
SearchQuery(msg) == <<"current weather ", msg>>

\* lines 58-60: the loop building raw_weather_data; a result without title
\* or content raises KeyError
RawWeatherData(ret) ==
    LET rs == IF ret.has_results THEN ret.results ELSE <<>>
    IN IF \E i \in 1..Len(rs) : ~rs[i].ok THEN Raise("'title'")
       ELSE Ok([i \in 1..Len(rs) |-> <<rs[i].title, ": ", rs[i].content>>])

\* a slip: the prompt built without the search results
Prompt_NoData(msg, raw) == [summary_for |-> msg, combined_data |-> <<>>]

\* lines 64-78
Prompt(msg, raw) == [summary_for |-> msg, combined_data |-> raw]

Call(op, arg) == [op |-> op, arg |-> arg]

\* a slip: both outbound calls issued at once
CallsOnReceive_Both(msg) ==
    <<Call("search", SearchQuery(msg)), Call("llm", Prompt(msg, <<>>))>>

\* lines 50-55: the outbound calls issued once the task has parsed
CallsOnReceive(msg) == <<Call("search", SearchQuery(msg))>>

InitServer ==
    /\ sv_pc = "idle"
    /\ task_data = [kind |-> "null", id |-> NoId,
                    message |-> [kind |-> "absent",
                                 parts |-> [kind |-> "absent", items |-> <<>>]]]
    /\ task_id = NoId
    /\ user_message = ""
    /\ outbound = <<>>
    /\ response_text = ""
    /\ response = NoResponse
    /\ requests = 0

\* lines 37-46: the body does not parse as a task
ReceiveInvalid(data) ==
    /\ sv_pc \in {"idle", "responded"}
    /\ requests < MaxRequests
    /\ ~ExtractText(data).ok
    /\ task_data' = data
    /\ task_id' = IF GetId(data).ok THEN GetId(data).val ELSE NoId
    /\ user_message' = ""
    /\ outbound' = <<>>
    /\ response_text' = ""
    /\ response' = IF ExtractText(data).exc \in CaughtOnParse
                   THEN ErrorResponse(400, "Invalid A2A task format")
                   ELSE ErrorResponse(500, "Internal Server Error")
    /\ sv_pc' = "responded"
    /\ requests' = requests + 1
    /\ UNCHANGED <<execVars, clientVars, wcVars, extractVars>>

\* lines 37-55: the body parses, and the search call is issued
ReceiveTask(data) ==
    /\ sv_pc \in {"idle", "responded"}
    /\ requests < MaxRequests
    /\ ExtractText(data).ok
    /\ task_data' = data
    /\ task_id' = GetId(data).val
    /\ user_message' = ExtractText(data).val
    /\ outbound' = CallsOnReceive(ExtractText(data).val)
    /\ response_text' = ""
    /\ response' = NoResponse
    /\ sv_pc' = "search"
    /\ requests' = requests + 1
    /\ UNCHANGED <<execVars, clientVars, wcVars, extractVars>>

\* the search call raises: line 86, then lines 89-99
SearchRaises(e) ==
    /\ sv_pc = "search"
    /\ outbound' = Append(outbound, Call("search_raised", e))
    /\ response_text' = ErrorText(e)
    /\ response' = Envelope(task_data, task_id, ErrorText(e))
    /\ sv_pc' = "responded"
    /\ UNCHANGED <<task_data, task_id, user_message, requests>>
    /\ UNCHANGED <<execVars, clientVars, wcVars, extractVars>>

\* the search call returns: lines 58-83; with data the LLM call is issued,
\* without data, or on a malformed result, the answer is given at once
SearchReturnsResults(ret) ==
    /\ sv_pc = "search"
    /\ LET raw == RawWeatherData(ret)
           out == Append(outbound, Call("search_returned", ret))
       IN IF ~raw.ok
          THEN /\ outbound' = out
               /\ response_text' = ErrorText(raw.exc)
               /\ response' = Envelope(task_data, task_id, ErrorText(raw.exc))
               /\ sv_pc' = "responded"
          ELSE IF Len(raw.val) > 0
          THEN /\ outbound' = Append(out, Call("llm", Prompt(user_message, raw.val)))
               /\ UNCHANGED <<response_text, response>>
               /\ sv_pc' = "llm"
          ELSE /\ outbound' = out
               /\ response_text' = Apology
               /\ response' = Envelope(task_data, task_id, Apology)
               /\ sv_pc' = "responded"
    /\ UNCHANGED <<task_data, task_id, user_message, requests>>
    /\ UNCHANGED <<execVars, clientVars, wcVars, extractVars>>

\* the LLM call returns: line 81, then lines 89-99
LlmReturns(reply) ==
    /\ sv_pc = "llm"
    /\ outbound' = Append(outbound, Call("llm_returned", reply))
    /\ response_text' = reply
    /\ response' = Envelope(task_data, task_id, reply)
    /\ sv_pc' = "responded"
    /\ UNCHANGED <<task_data, task_id, user_message, requests>>
    /\ UNCHANGED <<execVars, clientVars, wcVars, extractVars>>

\* the LLM call raises: line 86, then lines 89-99
LlmRaises(e) ==
    /\ sv_pc = "llm"
    /\ outbound' = Append(outbound, Call("llm_raised", e))
    /\ response_text' = ErrorText(e)
    /\ response' = Envelope(task_data, task_id, ErrorText(e))
    /\ sv_pc' = "responded"
    /\ UNCHANGED <<task_data, task_id, user_message, requests>>
    /\ UNCHANGED <<execVars, clientVars, wcVars, extractVars>>

NextServer ==
    \/ \E data \in Bodies : ReceiveInvalid(data)
    \/ \E data \in Bodies : ReceiveTask(data)
    \/ \E e \in Exceptions : SearchRaises(e)
    \/ \E ret \in SearchReturns : SearchReturnsResults(ret)
    \/ \E reply \in LlmReplies : LlmReturns(reply)
    \/ \E e \in Exceptions : LlmRaises(e)

\* ----------------------------------------------------------- SDK client
\* a2a objects a response can hold: tid is the attribute id of a Task and
\* the attribute taskId of an event or a message
Obj(kind, t, state) ==
    [kind |-> kind, tid |-> t.id, context_id |-> t.context_id, state |-> state]

NoObj == [kind |-> "none", tid |-> NoId, context_id |-> NoId, state |-> "none"]
NoUpdate == [shape |-> "none", obj |-> NoObj]

\* hasattr(obj, 'taskId')
HasTaskIdAttr(obj) == obj.kind \in {"StatusEvent", "ArtifactEvent", "Message"}

\* hasattr(obj, 'status') and hasattr(obj.status, 'state')
HasStatus(obj) == obj.kind \in {"Task", "StatusEvent"}

\* a slip: the follow-up built like a first message
build_message_payload_NoIds(text, tid, cid) ==
    [text |-> text, task_id |-> NoId, context_id |-> NoId]

\* build_message_payload
build_message_payload(text, tid, cid) ==
    [text |-> text, task_id |-> tid, context_id |-> cid]

\* the task the agent side works on for a message: the task the message
\* names, else a new one
ServerTask(msg, fresh) ==
    [id |-> IF msg.task_id = NoId THEN fresh ELSE msg.task_id,
     context_id |-> IF msg.context_id = NoId THEN fresh + 1 ELSE msg.context_id]

\* the task the agent side works on for the last message sent
CurrentTask ==
    IF served = <<>> THEN [id |-> NoId, context_id |-> NoId] ELSE served[Len(served)]

\* the updates the agent side can send next on the open stream
ProgressUpdates ==
    IF shape = "tuple"
    THEN {[shape |-> "tuple", obj |-> Obj("Task", CurrentTask, st)] :
            st \in {"submitted", "working"}}
    ELSE {[shape |-> "wrapped", obj |-> Obj("Task", CurrentTask, "submitted")],
          [shape |-> "wrapped", obj |-> Obj("StatusEvent", CurrentTask, "working")],
          [shape |-> "wrapped", obj |-> Obj("ArtifactEvent", CurrentTask, "none")],
          [shape |-> "wrapped", obj |-> Obj("Message", CurrentTask, "none")]}

FinalStates == IF asked < MaxAsks THEN {"completed", "input_required"} ELSE {"completed"}

FinalUpdates ==
    IF shape = "tuple"
    THEN {[shape |-> "tuple", obj |-> Obj("Task", CurrentTask, st)] : st \in FinalStates}
    ELSE {[shape |-> "wrapped", obj |-> Obj(k, CurrentTask, st)] :
            k \in {"Task", "StatusEvent"}, st \in FinalStates}

\* the responses the agent side can give to a non-streaming send
NsResponses ==
    IF shape = "tuple"
    THEN {[shape |-> "tuple", obj |-> Obj("Task", CurrentTask, st)] : st \in FinalStates}
    ELSE {[shape |-> "wrapped", obj |-> Obj("Task", CurrentTask, st)] : st \in FinalStates}
         \cup {[shape |-> "wrapped", obj |-> Obj("Message", CurrentTask, "none")],
               [shape |-> "error", obj |-> NoObj]}

CarriesInputRequired(u) == HasStatus(u.obj) /\ u.obj.state = "input_required"

Locals(tid, cid, ir, ret) ==
    [latest_task_id |-> tid, latest_context_id |-> cid,
     input_required |-> ir, returned |-> ret]

\* handle_streaming, lines 154-197: the body of the loop for one update
OnUpdate(l, u) ==
    IF u.shape = "tuple"
    THEN LET l1 == [l EXCEPT !.latest_context_id = u.obj.context_id,
                             !.latest_task_id = u.obj.tid]
         IN IF u.obj.state = "input_required" THEN [l1 EXCEPT !.input_required = TRUE]
            ELSE IF u.obj.state = "completed" THEN [l1 EXCEPT !.returned = TRUE]
            ELSE l1
    ELSE IF u.shape = "wrapped"
    THEN LET l1 == [l EXCEPT !.latest_context_id = u.obj.context_id]
         IN IF ~HasStatus(u.obj) THEN l1
            ELSE IF u.obj.state = "input_required"
            THEN [l1 EXCEPT !.latest_task_id =
                                IF HasTaskIdAttr(u.obj) THEN u.obj.tid ELSE @,
                            !.input_required = TRUE]
            ELSE IF u.obj.state = "completed" THEN [l1 EXCEPT !.returned = TRUE]
            ELSE l1
    ELSE l

\* handle_streaming, line 204
StreamingFollowsUp(l) ==
    l.input_required /\ l.latest_task_id # NoId /\ l.latest_context_id # NoId

\* handle_non_streaming, lines 228-230
NonStreamingFollowsUp(r) ==
    r.shape = "wrapped" /\ HasStatus(r.obj) /\ r.obj.state = "input_required"

InitClient ==
    /\ cl_pc = "idle"
    /\ mode = "none"
    /\ shape = "none"
    /\ sent = <<>>
    /\ latest_task_id = NoId
    /\ latest_context_id = NoId
    /\ input_required = FALSE
    /\ result = NoUpdate
    /\ stream_final = FALSE
    /\ n_updates = 0
    /\ served = <<>>
    /\ asked = 0
    /\ prompted = 0
    /\ srvNext = 1
    /\ queries = 0

\* main_async, lines 299-302: a query is handed to one of the handlers, which
\* builds the first message and sends it (lines 132-143, lines 210-213)
StartQuery(m, sh) ==
    /\ cl_pc \in {"idle", "done", "raised"}
    /\ queries < MaxQueries
    /\ mode' = m
    /\ shape' = sh
    /\ LET msg == build_message_payload("query", NoId, NoId)
       IN /\ sent' = <<msg>>
          /\ served' = <<ServerTask(msg, srvNext)>>
    /\ srvNext' = srvNext + 2
    /\ latest_task_id' = NoId
    /\ latest_context_id' = NoId
    /\ input_required' = FALSE
    /\ result' = NoUpdate
    /\ stream_final' = FALSE
    /\ n_updates' = 0
    /\ asked' = 0
    /\ prompted' = 0
    /\ queries' = queries + 1
    /\ cl_pc' = IF m = "streaming" THEN "stream" ELSE "ns_await"
    /\ UNCHANGED <<execVars, serverVars, wcVars, extractVars>>

\* handle_streaming, lines 143-197: one update of the stream
StreamUpdate(u) ==
    /\ cl_pc = "stream"
    /\ ~stream_final
    /\ \/ u \in ProgressUpdates /\ n_updates < MaxUpdates /\ stream_final' = FALSE
       \/ u \in FinalUpdates /\ stream_final' = TRUE
    /\ n_updates' = n_updates + 1
    /\ asked' = IF CarriesInputRequired(u) THEN asked + 1 ELSE asked
    /\ LET l == OnUpdate(Locals(latest_task_id, latest_context_id, input_required, FALSE), u)
       IN /\ latest_task_id' = l.latest_task_id
          /\ latest_context_id' = l.latest_context_id
          /\ input_required' = l.input_required
          /\ cl_pc' = IF l.returned THEN "done" ELSE "stream"
    /\ UNCHANGED <<mode, shape, sent, result, served, prompted, srvNext, queries>>
    /\ UNCHANGED <<execVars, serverVars, wcVars, extractVars>>

\* handle_streaming, lines 203-204: the stream is exhausted
StreamEnd ==
    /\ cl_pc = "stream"
    /\ cl_pc' = IF StreamingFollowsUp(
                      Locals(latest_task_id, latest_context_id, input_required, FALSE))
                THEN "prompt" ELSE "done"
    /\ UNCHANGED <<mode, shape, sent, latest_task_id, latest_context_id, input_required,
                   result, stream_final, n_updates, served, asked, prompted, srvNext,
                   queries>>
    /\ UNCHANGED <<execVars, serverVars, wcVars, extractVars>>

\* handle_streaming, lines 199-201: the stream raises
StreamError ==
    /\ cl_pc = "stream"
    /\ cl_pc' = "raised"
    /\ UNCHANGED <<mode, shape, sent, latest_task_id, latest_context_id, input_required,
                   result, stream_final, n_updates, served, asked, prompted, srvNext,
                   queries>>
    /\ UNCHANGED <<execVars, serverVars, wcVars, extractVars>>

\* handle_streaming, lines 205-206 and 132-143 of the nested call: the user
\* replies, and the reply is sent with the latest ids
StreamReply ==
    /\ cl_pc = "prompt"
    /\ LET msg == build_message_payload("reply", latest_task_id, latest_context_id)
       IN /\ sent' = Append(sent, msg)
          /\ served' = Append(served, ServerTask(msg, srvNext))
    /\ prompted' = prompted + 1
    /\ latest_task_id' = NoId
    /\ latest_context_id' = NoId
    /\ input_required' = FALSE
    /\ stream_final' = FALSE
    /\ n_updates' = 0
    /\ cl_pc' = "stream"
    /\ UNCHANGED <<mode, shape, result, asked, srvNext, queries>>
    /\ UNCHANGED <<execVars, serverVars, wcVars, extractVars>>

\* handle_non_streaming, lines 213-230: the response to the first message
NsResponse(r) ==
    /\ cl_pc = "ns_await"
    /\ r \in NsResponses
    /\ result' = r
    /\ asked' = IF CarriesInputRequired(r) THEN asked + 1 ELSE asked
    /\ cl_pc' = IF NonStreamingFollowsUp(r) THEN "ns_prompt" ELSE "done"
    /\ UNCHANGED <<mode, shape, sent, latest_task_id, latest_context_id, input_required,
                   stream_final, n_updates, served, prompted, srvNext, queries>>
    /\ UNCHANGED <<execVars, serverVars, wcVars, extractVars>>

\* handle_non_streaming, lines 231-238: the user replies, and the reply is
\* sent with the ids of the task of the response
NsReply ==
    /\ cl_pc = "ns_prompt"
    /\ LET msg == build_message_payload("reply", result.obj.tid, result.obj.context_id)
       IN /\ sent' = Append(sent, msg)
          /\ served' = Append(served, ServerTask(msg, srvNext))
    /\ prompted' = prompted + 1
    /\ cl_pc' = "ns_await2"
    /\ UNCHANGED <<mode, shape, latest_task_id, latest_context_id, input_required,
                   result, stream_final, n_updates, asked, srvNext, queries>>
    /\ UNCHANGED <<execVars, serverVars, wcVars, extractVars>>

\* handle_non_streaming, lines 238-246: the response to the follow-up
NsFollowUpResponse(r) ==
    /\ cl_pc = "ns_await2"
    /\ r \in NsResponses
    /\ asked' = IF CarriesInputRequired(r) THEN asked + 1 ELSE asked
    /\ cl_pc' = "done"
    /\ UNCHANGED <<mode, shape, sent, latest_task_id, latest_context_id, input_required,
                   result, stream_final, n_updates, served, prompted, srvNext, queries>>
    /\ UNCHANGED <<execVars, serverVars, wcVars, extractVars>>

\* handle_non_streaming, lines 223-225: a send raises
NsError ==
    /\ cl_pc \in {"ns_await", "ns_await2"}
    /\ cl_pc' = "raised"
    /\ UNCHANGED <<mode, shape, sent, latest_task_id, latest_context_id, input_required,
                   result, stream_final, n_updates, served, asked, prompted, srvNext,
                   queries>>
    /\ UNCHANGED <<execVars, serverVars, wcVars, extractVars>>

NextClient ==
    \/ \E m \in {"streaming", "non_streaming"} : \E sh \in {"tuple", "wrapped"} :
          StartQuery(m, sh)
    \/ \E u \in ProgressUpdates \cup FinalUpdates : StreamUpdate(u)
    \/ StreamEnd
    \/ StreamError
    \/ StreamReply
    \/ \E r \in NsResponses : NsResponse(r)
    \/ NsReply
    \/ \E r \in NsResponses : NsFollowUpResponse(r)
    \/ NsError

\* -------------------------------------------------------- WeatherClient
\* self.agent_info: None, or the JSON value of a discovery response
NoCard == [kind |-> "None", name |-> ""]
Cards == {[kind |-> "dict", name |-> "WeatherBot"],
          [kind |-> "dict", name |-> "OtherBot"],
          [kind |-> "empty_dict", name |-> ""]}

\* Python truth of self.agent_info
Truthy(info) == info.kind = "dict"

\* how the GET of discover_agent can end
DiscoveryOutcomes ==
    {[ok |-> FALSE, card |-> NoCard, error |-> e] :
        e \in {"ConnectionError", "HTTPError", "JSONDecodeError"}}
    \cup {[ok |-> TRUE, card |-> c, error |-> "none"] : c \in Cards}

\* how the POST of ask_weather can end
PostOutcomes ==
    {[ok |-> FALSE, n_messages |-> 0], [ok |-> TRUE, n_messages |-> 2],
     [ok |-> TRUE, n_messages |-> 0]}

Locations == {"London", "Tokyo"}

CallRecord(op, raised, returned, before) ==
    [op |-> op, raised |-> raised, returned |-> returned,
     info_before |-> before, sent_before |-> Len(http_log)]

InitWC ==
    /\ agent_info = NoCard
    /\ http_log = <<>>
    /\ last_call = [op |-> "none", raised |-> "none", returned |-> "none",
                    info_before |-> NoCard, sent_before |-> 0]
    /\ discovered = FALSE
    /\ wc_calls = 0

\* discover_agent, lines 13-21
discover_agent(out) ==
    /\ wc_calls < MaxCalls
    /\ wc_calls' = wc_calls + 1
    /\ http_log' = Append(http_log, [method |-> "GET", path |-> "/.well-known/agent.json",
                                     location |-> ""])
    /\ IF out.ok
       THEN /\ agent_info' = out.card
            /\ discovered' = TRUE
            /\ last_call' = CallRecord("discover_agent", "none", "agent_info", agent_info)
       ELSE /\ UNCHANGED <<agent_info, discovered>>
            /\ last_call' = CallRecord("discover_agent", "Could not discover agent",
                                       "none", agent_info)
    /\ UNCHANGED <<execVars, serverVars, clientVars, extractVars>>

\* ask_weather, lines 27-28: the guard raises
ask_weather_undiscovered(location) ==
    /\ wc_calls < MaxCalls
    /\ ~Truthy(agent_info)
    /\ wc_calls' = wc_calls + 1
    /\ last_call' = CallRecord("ask_weather",
                               "Agent not discovered. Call discover_agent() first.",
                               "none", agent_info)
    /\ UNCHANGED <<agent_info, http_log, discovered>>
    /\ UNCHANGED <<execVars, serverVars, clientVars, extractVars>>

\* ask_weather, lines 30-59: the task is posted
ask_weather(location, out) ==
    /\ wc_calls < MaxCalls
    /\ Truthy(agent_info)
    /\ wc_calls' = wc_calls + 1
    /\ http_log' = Append(http_log, [method |-> "POST", path |-> "/tasks/send",
                                     location |-> location])
    /\ last_call' =
          IF ~out.ok
          THEN CallRecord("ask_weather", "Weather request failed", "none", agent_info)
          ELSE IF out.n_messages > 1
          THEN CallRecord("ask_weather", "none", "agent text", agent_info)
          ELSE CallRecord("ask_weather", "none", "No response received", agent_info)
    /\ UNCHANGED <<agent_info, discovered>>
    /\ UNCHANGED <<execVars, serverVars, clientVars, extractVars>>

NextWC ==
    \/ \E out \in DiscoveryOutcomes : discover_agent(out)
    \/ \E location \in Locations : ask_weather_undiscovered(location)
    \/ \E location \in Locations : \E out \in PostOutcomes : ask_weather(location, out)

\* ---------------------------------------- extract_content_from_response
\* what the function returns: a text, or None
Text(t) == [found |-> TRUE, text |-> t]
NoText == [found |-> FALSE, text |-> ""]

\* the parts of an artifact or a status message: a Part whose root is a
\* TextPart, a Part whose root has no text, an object with a text of its own
TextRoot(t) == [kind |-> "text_root", text |-> t]
DataRoot == [kind |-> "data_root", text |-> ""]
DirectText(t) == [kind |-> "direct_text", text |-> t]

ArtifactPartValues == {TextRoot("sunny"), DataRoot, DirectText("plain")}

ArtifactPartLists == UNION {[1..n -> ArtifactPartValues] : n \in 0..MaxArtParts}

\* an artifact: its parts, and what it carries besides: nothing, a blank
\* content attribute, a content attribute, or a root with a text
ArtifactValues ==
    {[parts |-> ps, extra |-> x] :
        ps \in ArtifactPartLists, x \in {"none", "blank_content", "content", "root_text"}}

ArtifactLists == UNION {[1..n -> ArtifactValues] : n \in 0..MaxArtifacts}

\* the status of a task: no status attribute, a status without message, or
\* a status whose message has these parts
StatusValues ==
    {[kind |-> "absent", parts |-> <<>>], [kind |-> "no_message", parts |-> <<>>]}
    \cup {[kind |-> "message", parts |-> ps] :
            ps \in {<<TextRoot("searching")>>, <<DataRoot, TextRoot("searching")>>,
                    <<DirectText("plain")>>}}

\* a task or result object: has_artifacts is hasattr(task, 'artifacts')
TaskValues ==
    {[has_artifacts |-> TRUE, artifacts |-> as, status |-> st] :
        as \in ArtifactLists, st \in StatusValues}
    \cup {[has_artifacts |-> FALSE, artifacts |-> <<>>, status |-> st] : st \in StatusValues}

FullTask ==
    [has_artifacts |-> TRUE,
     artifacts |-> <<[parts |-> <<TextRoot("sunny")>>, extra |-> "content"]>>,
     status |-> [kind |-> "message", parts |-> <<TextRoot("searching")>>]]

\* the shapes an update can have: (task, response), update.root.result, and
\* the others: a 1-tuple, a root without result, an object without root
Updates ==
    {[shape |-> sh, obj |-> o] : sh \in {"tuple", "wrapped"}, o \in TaskValues}
    \cup {[shape |-> sh, obj |-> FullTask] : sh \in {"tuple1", "error", "bare"}}

\* lines 50-57 and 87-92: the loop over the parts of an artifact
RECURSIVE ArtifactPartsText(_)
ArtifactPartsText(parts) ==
    IF parts = <<>> THEN NoText
    ELSE IF Head(parts).kind = "text_root" THEN Text(Head(parts).text)
    ELSE IF Head(parts).kind = "direct_text" THEN Text(Head(parts).text)
    ELSE ArtifactPartsText(Tail(parts))

\* lines 48-68 and 85-103: the body of the loop over the artifacts
ArtifactText(artifact) ==
    IF ArtifactPartsText(artifact.parts).found THEN ArtifactPartsText(artifact.parts)
    ELSE IF artifact.extra = "content" THEN Text("body")
    ELSE IF artifact.extra = "root_text" THEN Text("nested")
    ELSE NoText

\* lines 47-68 and 84-103: the loop over the artifacts
RECURSIVE ArtifactsText(_)
ArtifactsText(artifacts) ==
    IF artifacts = <<>> THEN NoText
    ELSE IF ArtifactText(Head(artifacts)).found THEN ArtifactText(Head(artifacts))
    ELSE ArtifactsText(Tail(artifacts))

\* lines 73-76 and 108-111: the loop over the parts of the status message
RECURSIVE MessagePartsText(_)
MessagePartsText(parts) ==
    IF parts = <<>> THEN NoText
    ELSE IF Head(parts).kind = "text_root" THEN Text(Head(parts).text)
    ELSE MessagePartsText(Tail(parts))

\* lines 71-76 and 106-111
StatusMessageText(status) ==
    IF status.kind = "message" THEN MessagePartsText(status.parts) ELSE NoText

\* a slip: the status message looked at before the artifacts
TaskText_StatusFirst(obj) ==
    IF StatusMessageText(obj.status).found THEN StatusMessageText(obj.status)
    ELSE IF obj.has_artifacts THEN ArtifactsText(obj.artifacts)
    ELSE NoText

\* lines 46-76 and 83-111: the artifacts, then the status message
TaskText(obj) ==
    IF obj.has_artifacts /\ ArtifactsText(obj.artifacts).found
    THEN ArtifactsText(obj.artifacts)
    ELSE StatusMessageText(obj.status)

\* extract_content_from_response
extract_content_from_response(u) ==
    IF u.shape = "tuple" THEN TaskText(u.obj)
    ELSE IF u.shape = "wrapped" THEN TaskText(u.obj)
    ELSE NoText

\* no call under way
IdleExtract ==
    /\ xt_pc = "idle"
    /\ update = [shape |-> "bare", obj |-> FullTask]
    /\ content = NoText

\* a call with any update
InitExtract ==
    /\ xt_pc = "call"
    /\ update \in Updates
    /\ content = NoText

\* one call, as on lines 145, 216 and 241
Extract ==
    /\ xt_pc = "call"
    /\ xt_pc' = "returned"
    /\ content' = extract_content_from_response(update)
    /\ UNCHANGED update
    /\ UNCHANGED <<execVars, serverVars, clientVars, wcVars>>

NextExtract == Extract

vars == <<execVars, serverVars, clientVars, wcVars, extractVars>>

Init == InitExec /\ InitServer /\ InitClient /\ InitWC /\ IdleExtract

SpecExec == Init /\ [][NextExec]_vars

SpecServer == Init /\ [][NextServer]_vars

SpecClient == Init /\ [][NextClient]_vars

SpecWC == Init /\ [][NextWC]_vars

InitCall == InitExec /\ InitServer /\ InitClient /\ InitWC /\ InitExtract

SpecExtract == InitCall /\ [][NextExtract]_vars

\* -------------------------------------------------- claims on the server
Responded200 == sv_pc = "responded" /\ response.status = 200
AgentText == response.messages[Len(response.messages)].parts[1].text
LastCall == outbound[Len(outbound)]
Positions(op) == {i \in 1..Len(outbound) : outbound[i].op = op}

\* the body carries a text at message.parts[0].text
CarriesText(data) ==
    /\ data.kind = "object"
    /\ data.message.kind = "object"
    /\ data.message.parts.kind = "list"
    /\ Len(data.message.parts.items) >= 1
    /\ data.message.parts.items[1].kind = "object"
    /\ data.message.parts.items[1].has_text

\* the prompt data the handler is to build from a search return
Formatted(ret) ==
    [i \in 1..Len(ret.results) |-> <<ret.results[i].title, ": ", ret.results[i].content>>]

\* C3 as stated: every answered well-formed task has had its text sent to
\* the search call, the search results sent to the LLM call, and carries the
\* LLM's reply as the agent text.
C3_AlwaysLlmReply ==
    Responded200 =>
        /\ outbound[1].op = "search"
        /\ outbound[1].arg = <<"current weather ", task_data.message.parts.items[1].text>>
        /\ \E i \in Positions("search_returned") : \E j \in Positions("llm") :
              \E k \in Positions("llm_returned") :
                /\ i < j /\ j < k
                /\ outbound[j].arg.combined_data = Formatted(outbound[i].arg)
                /\ AgentText = outbound[k].arg

\* C3 amended: every answered well-formed task has had its text sent to the
\* search call; the LLM call is made exactly when the search returned at
\* least one result, all with title and content, and then gets the message
\* text and the formatted results; the agent text is the LLM's reply when
\* the LLM call returned, the apology when the search returned no result,
\* and the error text when a call raised or a result was malformed.
C3_Forwarding ==
    Responded200 =>
        /\ outbound[1].op = "search"
        /\ outbound[1].arg = <<"current weather ", task_data.message.parts.items[1].text>>
        /\ CASE LastCall.op = "llm_returned" ->
                  /\ Len(outbound) = 4
                  /\ outbound[2].op = "search_returned"
                  /\ Len(outbound[2].arg.results) >= 1
                  /\ \A i \in 1..Len(outbound[2].arg.results) : outbound[2].arg.results[i].ok
                  /\ outbound[3].op = "llm"
                  /\ outbound[3].arg.summary_for = task_data.message.parts.items[1].text
                  /\ outbound[3].arg.combined_data = Formatted(outbound[2].arg)
                  /\ AgentText = LastCall.arg
             [] LastCall.op = "search_returned" ->
                  /\ Positions("llm") = {}
                  /\ IF LastCall.arg.results = <<>>
                     THEN AgentText = Apology
                     ELSE /\ \E i \in 1..Len(LastCall.arg.results) : ~LastCall.arg.results[i].ok
                          /\ AgentText = "I encountered an error getting weather data: 'title'"
             [] LastCall.op = "search_raised" ->
                  /\ Positions("llm") = {}
                  /\ AgentText \in {"I encountered an error getting weather data: timeout",
                                    "I encountered an error getting weather data: quota"}
             [] LastCall.op = "llm_raised" ->
                  /\ outbound[3].op = "llm"
                  /\ outbound[3].arg.combined_data = Formatted(outbound[2].arg)
                  /\ AgentText \in {"I encountered an error getting weather data: timeout",
                                    "I encountered an error getting weather data: quota"}
             [] OTHER -> FALSE

\* a task answered with the LLM's reply on two search results
C3_Witness ==
    /\ Responded200
    /\ LastCall.op = "llm_returned"
    /\ Len(outbound[2].arg.results) = 2
    /\ AgentText = "Rain, 12C"

\* C4: per request at most one search call and at most one LLM call are
\* issued, the LLM call is issued only after the search call has returned,
\* no call is outstanding while another is issued, and a call that raised
\* is not issued again.
C4_LinearNoRetry ==
    /\ Cardinality(Positions("search")) <= 1
    /\ Cardinality(Positions("llm")) <= 1
    /\ \A j \in Positions("llm") :
          /\ j > 1
          /\ outbound[j - 1].op = "search_returned"
    /\ \A i \in Positions("search_raised") : \A j \in 1..Len(outbound) :
          j > i => outbound[j].op # "search"
    /\ \A i \in Positions("llm_raised") : \A j \in 1..Len(outbound) :
          j > i => outbound[j].op # "llm"
    /\ \A i \in Positions("search_raised") \cup Positions("llm_raised") :
          i = Len(outbound) /\ sv_pc = "responded"

\* a request whose search call returned and whose LLM call raised
C4_Witness ==
    /\ sv_pc = "responded"
    /\ Len(outbound) = 4
    /\ outbound[1].op = "search"
    /\ outbound[2].op = "search_returned"
    /\ outbound[3].op = "llm"
    /\ outbound[4].op = "llm_raised"
    /\ requests = 2

\* C5: every success response carries the id of the posted task, the state
\* completed, and exactly two messages: the posted message unchanged, then
\* one message of role agent with exactly one part, a text part.
C5_FixedEnvelope ==
    Responded200 =>
        /\ response.id = task_data.id
        /\ response.state = "completed"
        /\ Len(response.messages) = 2
        /\ response.messages[1] = task_data.message
        /\ response.messages[2].role = "agent"
        /\ Len(response.messages[2].parts) = 1
        /\ DOMAIN response.messages[2].parts[1] = {"text"}

\* a success response to a task posted with an id, after a failed search
C5_Witness ==
    /\ Responded200
    /\ task_data.id \in TaskIds
    /\ response.id = task_data.id
    /\ LastCall.op = "search_raised"

\* C6 as stated: a body without a text at message.parts[0].text is answered
\* 400 "Invalid A2A task format", with no search call and no LLM call.
C6_Invalid400 ==
    (sv_pc = "responded" /\ ~CarriesText(task_data)) =>
        /\ response.status = 400
        /\ response.error = "Invalid A2A task format"
        /\ outbound = <<>>

\* ------------------------------------------------ claims on the executor
IsWorking(e) == e.kind = "status" /\ e.state = "working"
IsFinalStatus(e) == e.kind = "status" /\ e.final
IsArtifact(e) == e.kind = "artifact" /\ e.name = "weather_report"
IsCompleted(e) == e.kind = "status" /\ e.state = "completed"
IsInputRequired(e) == e.kind = "status" /\ e.state = "input_required"
InRun == ex_pc \in {"stream", "completing", "returned"}

\* C1: in every run of execute, once the weather_report artifact event or a
\* final=True status event has been enqueued, no working status event is
\* enqueued afterwards: every progress notice precedes them in the queue.
C1_ProgressBeforeFinal ==
    \A i \in 1..Len(event_queue) : \A j \in 1..Len(event_queue) :
        (i < j /\ (IsArtifact(event_queue[i]) \/ IsFinalStatus(event_queue[i])))
            => ~IsWorking(event_queue[j])

\* a finished run with progress notices, then the artifact
C1_Witness ==
    /\ ex_pc = "returned"
    /\ \E i \in 1..Len(event_queue) : \E j \in 1..Len(event_queue) :
          i < j /\ IsWorking(event_queue[i]) /\ IsArtifact(event_queue[j])
    /\ \E i \in 1..Len(event_queue) : IsWorking(event_queue[i])
                                       /\ event_queue[i].text = "processing"

\* C2: an artifact event is always followed at once by the completed status
\* event (or is the last event while execute stands between the two
\* enqueues), a completed status event is always preceded at once by an
\* artifact event, and a run that has returned with input_required as its
\* last event has enqueued no artifact: artifact iff completed.
C2_ArtifactIffCompleted ==
    /\ \A i \in 1..Len(event_queue) :
          IsArtifact(event_queue[i]) =>
             IF i = Len(event_queue) THEN ex_pc = "completing"
             ELSE IsCompleted(event_queue[i + 1])
    /\ \A i \in 1..Len(event_queue) :
          IsCompleted(event_queue[i]) => i > 1 /\ IsArtifact(event_queue[i - 1])
    /\ ex_pc = "returned" =>
          ((\E i \in 1..Len(event_queue) : IsArtifact(event_queue[i]))
             <=> (\E i \in 1..Len(event_queue) : IsCompleted(event_queue[i])))
    /\ (ex_pc = "returned" /\ IsInputRequired(event_queue[Len(event_queue)]))
          => \A i \in 1..Len(event_queue) : ~IsArtifact(event_queue[i])

\* a run that returned completed, after an earlier run asked for input
C2_Witness ==
    /\ ex_pc = "returned"
    /\ Len(event_queue) >= 2
    /\ IsArtifact(event_queue[Len(event_queue) - 1])
    /\ IsCompleted(event_queue[Len(event_queue)])
    /\ context.current_task # None

\* C9: every stream call uses the task's context id as thread id, so the
\* calls made for one task all use one thread id; with a current task
\* execute works on that task and enqueues no task event; without one it
\* creates one task from the message and enqueues it as the first event.
C9_ThreadIsContextId ==
    /\ InRun => thread_id = task.context_id
    /\ \A c \in calls : \E t \in tasks : t.id = c.task /\ t.context_id = c.thread
    /\ \A c \in calls : \A d \in calls : c.task = d.task => c.thread = d.thread
    /\ (InRun /\ context.current_task # None) =>
          /\ task = context.current_task
          /\ \A i \in 1..Len(event_queue) : event_queue[i].kind # "task"
    /\ (InRun /\ context.current_task = None) =>
          /\ Len(event_queue) >= 1
          /\ event_queue[1].kind = "task"
          /\ event_queue[1].taskId = task.id
          /\ event_queue[1].contextId = task.context_id
          /\ context.message.context_id # NoId
                => task.context_id = context.message.context_id
          /\ \A i \in 2..Len(event_queue) : event_queue[i].kind # "task"

\* a second turn of a conversation has run on the thread of the first
C9_Witness ==
    /\ ex_pc = "returned"
    /\ context.current_task # None
    /\ thread_id \in DOMAIN memory
    /\ memory[thread_id] >= 2
    /\ \E c \in calls : c.task = task.id /\ c.thread = thread_id
\* C11: a call of execute with a request context without message raises
\* 'No message provided' with no event enqueued and the agent not invoked:
\* the queue of the call is empty, and the checkpoint, the stream calls made
\* and the known tasks are as before the call.
C11_NoMessageNoEffect ==
    [][(runs' = runs + 1 /\ context'.message = None) =>
          /\ ex_pc' = "raised"
          /\ event_queue' = <<>>
          /\ thread_id' = NoId
          /\ memory' = memory
          /\ calls' = calls
          /\ tasks' = tasks]_vars

\* a call without message on a conversation that has a checkpoint
C11_Witness ==
    /\ ex_pc = "raised"
    /\ context.message = None
    /\ context.current_task # None
    /\ event_queue = <<>>
    /\ context.current_task.context_id \in DOMAIN memory

\* C12: a run of execute that has returned has enqueued exactly one status
\* event with final=True, as its last event, in state completed or
\* input_required; every other status event of the run is in state working
\* with final=False.
C12_OneFinalStatusLast ==
    ex_pc = "returned" =>
        /\ Len(event_queue) >= 1
        /\ IsFinalStatus(event_queue[Len(event_queue)])
        /\ event_queue[Len(event_queue)].state \in {"completed", "input_required"}
        /\ Cardinality({i \in 1..Len(event_queue) : IsFinalStatus(event_queue[i])}) = 1
        /\ \A i \in 1..(Len(event_queue) - 1) :
              event_queue[i].kind = "status" =>
                 (event_queue[i].state = "working" /\ ~event_queue[i].final)

\* a run that asked for input after two progress notices, on a new task
C12_Witness ==
    /\ ex_pc = "returned"
    /\ context.current_task = None
    /\ Len(event_queue) = 4
    /\ IsWorking(event_queue[2])
    /\ IsWorking(event_queue[3])
    /\ IsInputRequired(event_queue[4])
    /\ event_queue[4].final

\* -------------------------------------------------- claims on the client
\* C7 as stated: when a handler has returned, every response of the query
\* that carried the input-required status has been answered with a prompt
\* and a resent reply.
C7_AlwaysPrompts ==
    cl_pc = "done" => (prompted = asked /\ Len(sent) = 1 + asked)

\* C8: the first message of a query carries no task id and no context id,
\* and every follow-up carries the task id and the context id of the task
\* the agent side worked on in the response that asked for the input.
C8_FollowUpIds ==
    /\ Len(sent) >= 1 => (sent[1].task_id = NoId /\ sent[1].context_id = NoId)
    /\ \A k \in 2..Len(sent) :
          /\ sent[k].task_id = served[k - 1].id
          /\ sent[k].context_id = served[k - 1].context_id
          /\ sent[k].task_id # NoId
          /\ sent[k].context_id # NoId

\* the second query of a session has sent two follow-ups on its own task
C8_Witness ==
    /\ queries = 2
    /\ mode = "streaming"
    /\ Len(sent) = 3
    /\ sent[3].task_id = 3
    /\ sent[3].context_id = 4
    /\ cl_pc = "done"
\* ------------------------------------------- claims on the WeatherClient
\* C10 as stated: an ask_weather call raises "Agent not discovered. Call
\* discover_agent() first." and sends no HTTP request if and only if no
\* earlier discover_agent call has returned successfully; a discover_agent
\* call that fails raises "Could not discover agent" and leaves agent_info
\* unchanged.
C10_RaisesIffNeverDiscovered ==
    /\ last_call.op = "ask_weather" =>
          ((/\ last_call.raised = "Agent not discovered. Call discover_agent() first."
            /\ Len(http_log) = last_call.sent_before)
             <=> ~discovered)
    /\ (last_call.op = "discover_agent" /\ last_call.returned = "none") =>
          /\ last_call.raised = "Could not discover agent"
          /\ agent_info = last_call.info_before
\* ------------------------- claims on extract_content_from_response
\* the texts of the artifacts of a task, in the order of the artifacts: of
\* each artifact the texts of its parts, then its own content or nested text
TextsOfParts(parts) ==
    [i \in 1..Len(SelectSeq(parts, LAMBDA q : q.kind \in {"text_root", "direct_text"})) |->
        SelectSeq(parts, LAMBDA q : q.kind \in {"text_root", "direct_text"})[i].text]

TextsOfArtifact(a) ==
    TextsOfParts(a.parts)
    \o (IF a.extra = "content" THEN <<"body">>
        ELSE IF a.extra = "root_text" THEN <<"nested">> ELSE <<>>)

RECURSIVE TextsOfArtifacts(_)
TextsOfArtifacts(as) ==
    IF as = <<>> THEN <<>> ELSE TextsOfArtifact(Head(as)) \o TextsOfArtifacts(Tail(as))

\* the texts of the text parts of the status message of a task
TextsOfStatus(st) ==
    IF st.kind # "message" THEN <<>>
    ELSE [i \in 1..Len(SelectSeq(st.parts, LAMBDA q : q.kind = "text_root")) |->
            SelectSeq(st.parts, LAMBDA q : q.kind = "text_root")[i].text]

\* C13: for a tuple and for a wrapped result the function returns the first
\* text of the task's artifacts, when they hold none the first text part of
\* the status message, and None when there is neither; for every other shape
\* it returns None.
C13_FirstArtifactTextElseStatus ==
    xt_pc = "returned" =>
    IF update.shape \in {"tuple", "wrapped"}
    THEN LET arts == TextsOfArtifacts(update.obj.artifacts)
             stat == TextsOfStatus(update.obj.status)
         IN IF arts # <<>> THEN content = [found |-> TRUE, text |-> arts[1]]
            ELSE IF stat # <<>> THEN content = [found |-> TRUE, text |-> stat[1]]
            ELSE content = [found |-> FALSE, text |-> ""]
    ELSE content = [found |-> FALSE, text |-> ""]

\* a wrapped result whose artifact has a text part behind a part without
\* text, and whose status message has a text too
C13_Witness ==
    /\ xt_pc = "returned"
    /\ update.shape = "wrapped"
    /\ update.obj.has_artifacts
    /\ Len(update.obj.artifacts) = 1
    /\ update.obj.artifacts[1].parts = <<[kind |-> "data_root", text |-> ""],
                                         [kind |-> "text_root", text |-> "sunny"]>>
    /\ update.obj.status.kind = "message"
    /\ update.obj.status.parts = <<[kind |-> "text_root", text |-> "searching"]>>
    /\ content = [found |-> TRUE, text |-> "sunny"]
====
